---- MODULE Spec2Model ----
(***************************************************************************)
(* Model of pygeoapi/provider/postgis_edr.py: PostGISRasterProvider, the   *)
(* EDR provider that answers position and area queries from a PostGIS      *)
(* raster table.                                                           *)
(*                                                                         *)
(* Text is modelled as a sequence of one-character strings, so that the    *)
(* predicates handle_datetime formats are compared character by character. *)
(***************************************************************************)
EXTENDS Integers, Sequences, FiniteSets, TLC

VARIABLES
    \* ---- the provider instance (self) ----
    fields,               \* self.fields
    _coverage_properties, \* self._coverage_properties
    _data,                \* self._data, set by area queries
    \* ---- one call of query per thread ----
    threads,              \* the threads that serve requests
    workload,             \* which requests the clients send: a key of Sent
    kwargs,               \* kwargs[t]: the request of thread t
    pc,                   \* pc[t]: position of thread t inside query
    where_datetime,       \* local where_datetime
    query_params,         \* local query_params
    sql_query,            \* local sql_query
    conn,                 \* the DatabaseConnection of the call
    executed,             \* number of cursor.execute calls of the call
    row_data,             \* local row_data
    dataset,              \* local dataset (the opened MemoryFile)
    out_meta,             \* local out_meta
    result,               \* what the call returned or raised
    \* ---- a direct call of handle_datetime ----
    hd_in,       \* requested_datetimes
    hd_col,      \* time_col
    hd_out,      \* outcome of the call
    hd_pc,       \* "input" before the call, "called" after it
    \* ---- the life of the provider ----
    provider,      \* "new", then "ready" or "failed" after __init__
    table,         \* what the database answers the descriptive statements
    num_bands,     \* self.num_bands
    init_error,    \* the exception __init__ raised, "" when none
    meta_executed, \* number of descriptive statements executed so far
    recall,        \* a later call of _get_coverage_properties or get_fields
    provider_def,  \* the provider definition of the configuration
    \* ---- a direct call of gen_area_covjson ----
    gc_meta,     \* metadata
    gc_data,     \* data
    gc_out,      \* outcome of the call
    gc_pc        \* "input" before the call, "called" after it

selfvars == <<fields, _coverage_properties, _data>>
envvars == <<threads, workload>>
lifevars == <<provider, table, provider_def, num_bands, init_error,
              meta_executed, recall>>
gcvars == <<gc_meta, gc_data, gc_out, gc_pc>>
callvars == <<kwargs, pc, where_datetime, query_params, sql_query, conn,
              executed, row_data, dataset, out_meta, result>>
hdvars == <<hd_in, hd_col, hd_out, hd_pc>>
vars == <<selfvars, envvars, callvars, hdvars, lifevars, gcvars>>

----------------------------------------------------------------------------
(* Bounds *)

\* longest datetime expression handed to a direct call of handle_datetime
MaxDtLen == 4

\* characters of a datetime expression: the separator, the dot of the
\* open-end marker "..", and two characters that timestamps are made of
DtChars == {"/", ".", "a", "b"}

----------------------------------------------------------------------------
(* Text helpers *)

\* all texts over the characters S of length at most n
RECURSIVE TextsUpTo(_, _)
TextsUpTo(S, n) ==
    IF n = 0 THEN {<<>>}
    ELSE LET shorter == TextsUpTo(S, n - 1)
         IN  shorter \cup {Append(s, c) : s \in {x \in shorter : Len(x) = n - 1}, c \in S}

\* Python's None, as a value no text is equal to
None == <<"None">>

\* Python: c in s, for a one-character c
HasChar(s, c) == \E i \in 1..Len(s) : s[i] = c

\* Python: ".." in s
HasDotDot(s) == \E i \in 1..(Len(s) - 1) : s[i] = "." /\ s[i + 1] = "."

\* Python: s.split(sep) for a one-character sep
RECURSIVE split(_, _)
split(s, sep) ==
    IF ~HasChar(s, sep) THEN <<s>>
    ELSE LET i == CHOOSE k \in 1..Len(s) :
                      s[k] = sep /\ \A j \in 1..(k - 1) : s[j] # sep
         IN  <<SubSeq(s, 1, i - 1)>> \o split(SubSeq(s, i + 1, Len(s)), sep)

\* n blanks
Spaces(n) == [i \in 1..n |-> " "]

\* runs of blanks collapsed to one blank
RECURSIVE CollapseSpaces(_)
CollapseSpaces(s) ==
    IF Len(s) < 2 THEN s
    ELSE IF s[1] = " " /\ s[2] = " " THEN CollapseSpaces(Tail(s))
    ELSE <<s[1]>> \o CollapseSpaces(Tail(s))

\* a value returned by a call / an exception raised by it
Returned(v) == [kind |-> "return", exc |-> "", value |-> v]
Raised(e)   == [kind |-> "raise", exc |-> e, value |-> <<>>]

----------------------------------------------------------------------------
(* handle_datetime *)

\* "{time_col}" : the column name in double quotes
QuotedCol(time_col) == <<"\"">> \o time_col \o <<"\"">>

\* '{v}' : the value between single quotes
Quoted(v) == <<"'">> \o v \o <<"'">>

\* the instant branch with the comparison of the interval branch
InstantPredicate_ge(time_col, t) ==
    QuotedCol(time_col) \o <<" ", ">", "=", " ">> \o Quoted(t)

\* f"\"{time_col}\" = '{requested_datetimes}'"
InstantPredicate(time_col, t) ==
    QuotedCol(time_col) \o <<" ", "=", " ">> \o Quoted(t)

\* f"\"{time_col}\" >= '{end}'"
GePredicate(time_col, v) ==
    QuotedCol(time_col) \o <<" ", ">", "=", " ">> \o Quoted(v)

\* f"\"{time_col}\" <= '{start}'"
LePredicate(time_col, v) ==
    QuotedCol(time_col) \o <<" ", "<", "=", " ">> \o Quoted(v)

\* f"\"{time_col}\" <= '{start}'' and \<newline><25 blanks>\"{time_col}\" >= '{end}'"
\* the backslash-newline joins the two source lines; the blank before it and
\* the indentation of the second line stay in the text
ClosedPredicate(time_col, start, end) ==
    QuotedCol(time_col) \o <<" ", "<", "=", " ">> \o Quoted(start)
        \o <<"'", " ", "a", "n", "d">> \o Spaces(26)
        \o QuotedCol(time_col) \o <<" ", ">", "=", " ">> \o Quoted(end)

handle_datetime(requested_datetimes, time_col) ==
    IF requested_datetimes = None
    THEN Raised("TypeError: argument of type 'NoneType' is not iterable")
    ELSE IF ~HasChar(requested_datetimes, "/")
    THEN Returned(InstantPredicate(time_col, requested_datetimes))
    ELSE LET parts == split(requested_datetimes, "/")
         IN  IF Len(parts) # 2
             THEN Raised("ValueError: values to unpack")   \* start, end = ...
             ELSE LET start == parts[1]
                      end   == parts[2]
                  IN  IF HasDotDot(start) THEN Returned(GePredicate(time_col, end))
                      ELSE IF HasDotDot(end) THEN Returned(LePredicate(time_col, start))
                      ELSE Returned(ClosedPredicate(time_col, start, end))

----------------------------------------------------------------------------
(* Values of the query model *)

\* longest datetime expression of a request to query
MaxQueryDtLen == 3

\* most rows a position statement returns
MaxRows == 2

AllThreads == {1, 2}

\* the default of the time_col parameter, and the configured self.time_field
TimeTag   == <<"t", "i", "m", "e", "T", "a", "g">>
TimeField == <<"t", "s">>
TimeCols  == {TimeTag, TimeField}

\* kwargs of a request: query_type, datetime_, wkt (its geometry type, "None"
\* when the request has no geometry) and resulttype
QueryTypes  == {"position", "area", "cube"}
WktTypes    == {"None", "Point", "LineString", "Polygon", "MultiPoint"}
ResultTypes == {"results", "hits"}

Requests ==
    [query_type : QueryTypes,
     datetime_  : TextsUpTo(DtChars, MaxQueryDtLen) \cup {None},
     wkt        : WktTypes,
     resulttype : ResultTypes]

\* the requests sent to a provider while its construction and its resolvers
\* are looked at
LifeRequests ==
    [query_type : QueryTypes, datetime_ : {<<"a">>}, wkt : {"Polygon"},
     resulttype : {"results"}]

\* the requests sent by two clients at a time
ConcRequests ==
    [query_type : {"position", "area"}, datetime_ : {<<"a">>, <<"b">>},
     wkt : {"Polygon"}, resulttype : {"results"}]

\* the requests the clients send, by workload
Sent ==
    [any |-> Requests, life |-> LifeRequests, two |-> ConcRequests,
     none |-> {}]

\* values a call of query ends with
NoneValue   == [type |-> "None"]
Unsupported == [type |-> "str", text |-> "unsupported query type!"]
QReturned(v) == [kind |-> "return", exc |-> "", value |-> v]
QRaised(e)   == [kind |-> "raise", exc |-> e, value |-> NoneValue]
Pending      == [kind |-> "none", exc |-> "", value |-> NoneValue]

\* the raster payloads the table holds: GTiff rasters with their bounds
\* (left, bottom, right, top), size and band count, a payload that GDAL
\* cannot open, and the NULL that ST_Clip yields outside the raster
GTiff(bounds, width, height, count) ==
    [kind |-> "gtiff", driver |-> "GTiff", bounds |-> bounds,
     width |-> width, height |-> height, count |-> count]

Rasters ==
    {GTiff(<<0, 0, 10, 10>>, 10, 10, 1),
     GTiff(<<2, 3, 6, 5>>, 4, 2, 1),
     GTiff(<<0, 0, 2, 1>>, 2, 1, 2)}

CorruptPayload == [kind |-> "corrupt"]
NullPayload    == [kind |-> "null"]
Payloads       == Rasters \cup {CorruptPayload, NullPayload}

\* a row of a position statement carries scalars only
ScalarRow == [kind |-> "scalars"]

\* dataset.read(): the pixels of all bands, band by band and row by row
read(raster) ==
    [i \in 1..(raster.count * raster.height * raster.width) |-> i % 3]

\* dataset.tags(bidx): the tags of the dataset (bidx = 0) or of a band
tags(raster, bidx) ==
    IF bidx = 0 THEN [AREA_OR_POINT |-> "Area"] ELSE [BAND |-> bidx]

NoDataset == [kind |-> "none"]
NoMeta    == [kind |-> "none"]
NoSql     == [shape |-> "none"]
NoParams  == [labels |-> {}, binding |-> "none"]
NoRequest == [query_type |-> "", datetime_ |-> None, wkt |-> "None",
              resulttype |-> ""]

----------------------------------------------------------------------------
(* Helpers of query *)

\* the check of the required input at the top of query: all([...]) builds a
\* list and never fails, so the except branch that raises ValueError
\* ('parameter requirements not met!') is never taken
RequirementsCheckRaises(kw) == FALSE

_process_wkt_parameter(wkt, props) ==
    LET both == {props.x_axis_label, props.y_axis_label}
    IN  IF wkt = "None" THEN NoParams
        ELSE IF wkt = "Point" THEN [labels |-> both, binding |-> "scalar"]
        ELSE IF wkt = "LineString" THEN [labels |-> both, binding |-> "sequence"]
        ELSE IF wkt = "Polygon" THEN [labels |-> both, binding |-> "slice"]
        ELSE NoParams

\* the statement of a position query: the scalar columns and ST_Value of
\* band 1 at the geometry, all rows that match, newest first
PositionStatement(kw, where) ==
    [shape |-> "position", where |-> where, wkt |-> kw.wkt,
     order |-> TimeField, limit |-> 0]

\* the area statement without its LIMIT 1
AreaStatement_no_limit(kw, where) ==
    [shape |-> "area", where |-> where, wkt |-> kw.wkt,
     order |-> TimeField, limit |-> 0]

\* the statement of an area query: the raster clipped to the geometry as a
\* GTiff, the newest row that matches only (LIMIT 1)
AreaStatement(kw, where) ==
    [shape |-> "area", where |-> where, wkt |-> kw.wkt,
     order |-> TimeField, limit |-> 1]

\* the text that SQL(f"...") holds for a statement: the fixed pieces of the
\* f-string with kwargs.get('wkt'), where_datetime, self.rast, self.table and
\* self.time_field put in between them
SqlText(sql) ==
    IF sql.shape = "position"
    THEN <<"SELECT pid, ..., ST_Value(", "rast",
           ", 1, ST_SetSRID(ST_GeomFromText('", sql.wkt,
           "'), 4326)) as \"pROTI\" from ", "table",
           " where \"useCaseId\" = 'MFMC01' and ">>
         \o sql.where \o <<" order by \"">> \o sql.order \o <<"\" DESC">>
    ELSE IF sql.shape = "area"
    THEN <<"with input_polygon as (select ST_SetSRID(ST_GeomFromText('",
           sql.wkt, "'), 4326) as geom) SELECT pid, ..., \"">>
         \o sql.order
         \o <<"\" as datetime_, ST_AsGDALRaster(ST_Clip(", "rast",
              ", 1, geom, true), 'GTiff') as rast from ", "table",
              ", input_polygon where \"useCaseId\" = 'MFMC01' and ">>
         \o sql.where \o <<" ORDER BY \"">> \o sql.order
         \o (IF sql.limit = 0 THEN <<"\" DESC">> ELSE <<"\" DESC LIMIT 1">>)
    ELSE <<>>

\* the if over query_type with an else branch that builds the area statement
StatementFor_else_area(kw, where) ==
    IF kw.query_type = "position" THEN PositionStatement(kw, where)
    ELSE AreaStatement(kw, where)

\* the if / elif / else over query_type: the statement of the request, or
\* NoSql for a query type that is neither 'position' nor 'area'
StatementFor(kw, where) ==
    IF kw.query_type = "position" THEN PositionStatement(kw, where)
    ELSE IF kw.query_type = "area" THEN AreaStatement(kw, where)
    ELSE NoSql

_get_parameter_metadata(driver, band) ==
    IF driver = "GRIB"
    THEN [id |-> band.GRIB_ELEMENT, description |-> band.GRIB_COMMENT,
          unit_label |-> band.GRIB_UNIT, unit_symbol |-> band.GRIB_UNIT,
          observed_property_id |-> band.GRIB_SHORT_NAME,
          observed_property_name |-> band.GRIB_COMMENT]
    ELSE IF driver = "GTiff"
    THEN [id |-> "pROTI", description |-> "hardcoded description",
          unit_label |-> "unit", unit_symbol |-> "symbol",
          observed_property_id |-> "pROTI",
          observed_property_name |-> "atmospheric ionization"]
    ELSE [id |-> "None", description |-> "None",
          unit_label |-> "None", unit_symbol |-> "None",
          observed_property_id |-> "None",
          observed_property_name |-> "None"]

\* metadata['bands'] is None
AllBands == <<-1>>

\* the axes of the Grid domain with the y axis running from bottom to top
GridAxes_bottom_up(metadata) ==
    LET minx == metadata.bbox[1]
        miny == metadata.bbox[2]
        maxx == metadata.bbox[3]
        maxy == metadata.bbox[4]
    IN  [x |-> [start |-> minx, stop |-> maxx, num |-> metadata.width],
         y |-> [start |-> miny, stop |-> maxy, num |-> metadata.height],
         z |-> [values |-> <<"pROTI">>],
         t |-> [values |-> <<"2021-08-19T08:25:00Z">>]]

\* the axes of the Grid domain
GridAxes(metadata) ==
    LET minx == metadata.bbox[1]
        miny == metadata.bbox[2]
        maxx == metadata.bbox[3]
        maxy == metadata.bbox[4]
    IN  [x |-> [start |-> minx, stop |-> maxx, num |-> metadata.width],
         y |-> [start |-> maxy, stop |-> miny, num |-> metadata.height],
         z |-> [values |-> <<"pROTI">>],
         t |-> [values |-> <<"2021-08-19T08:25:00Z">>]]

\* gen_area_covjson(self, metadata, data); props is
\* self._coverage_properties and selfdata is the raster behind self._data
gen_area_covjson(props, selfdata, metadata, data) ==
    LET referencing ==
            <<[coordinates |-> <<"x", "y">>,
               system |-> [type |-> props.crs_type, id |-> props.bbox_crs]],
              [coordinates |-> <<"t">>,
               system |-> [type |-> "TemporalRS", calendar |-> "Gregorian"]]>>
        bands_select ==
            IF metadata.bands = AllBands
            THEN [i \in 1..selfdata.count |-> i]
            ELSE metadata.bands
        pm(i) == _get_parameter_metadata(selfdata.driver,
                                         tags(selfdata, bands_select[i]))
        ids == {pm(i).id : i \in 1..Len(bands_select)}
        last(k) == CHOOSE i \in 1..Len(bands_select) :
                       /\ pm(i).id = k
                       /\ \A j \in (i + 1)..Len(bands_select) : pm(j).id # k
        parameter(i) ==
            [type |-> "Parameter",
             description |-> pm(i).description,
             unit |-> [symbol |-> pm(i).unit_label],
             observedProperty |->
                 [id |-> pm(i).observed_property_id,
                  label |-> [en |-> pm(i).observed_property_name]]]
    IN  [type |-> "Coverage",
         domain |-> [type |-> "Domain",
                     domainType |-> "Grid",
                     axes |-> GridAxes(metadata),
                     referencing |-> referencing],
         parameters |-> [k \in ids |-> parameter(last(k))],
         ranges |-> [k \in ids |->
                        [type |-> "NdArray",
                         dataType |-> "float",
                         axisNames |-> <<"y", "x">>,
                         shape |-> <<metadata.height, metadata.width>>,
                         values |-> data]]]

\* dataset.meta, with the bbox and bands entries that query adds
OutMeta(raster) ==
    [driver |-> raster.driver, width |-> raster.width,
     height |-> raster.height, count |-> raster.count,
     bbox |-> <<raster.bounds[1], raster.bounds[2],
                raster.bounds[3], raster.bounds[4]>>,
     bands |-> <<0>>]

----------------------------------------------------------------------------
(* The provider after construction *)

\* what BaseProvider.__init__ leaves in self before the provider resolves its
\* metadata: self.fields is the empty dict, self.num_bands is None (written
\* <<>>; a number n is written <<n>>), and _coverage_properties is not there
NoFields     == [type |-> "", field |-> <<>>]
NoBands      == <<>>
NoProperties == [bbox |-> <<>>]

\* the rows of information_schema.columns for the table, and the configured
\* raster_parameters
Columns ==
    <<[id |-> 1, type |-> "integer", name |-> "pid"],
      [id |-> 2, type |-> "timestamp", name |-> "ts"]>>

RasterParameters == <<[id |-> 3, type |-> "float", name |-> "pROTI"]>>

\* self.fields as get_fields builds it: the columns of the table followed by
\* the configured raster_parameters
Fields ==
    [type |-> "DataRecordType",
     field |-> <<[id |-> 1, type |-> "integer", name |-> "pid"],
                 [id |-> 2, type |-> "timestamp", name |-> "ts"],
                 [id |-> 3, type |-> "float", name |-> "pROTI"]>>]

\* get_fields(self): self.fields when it is there; otherwise one statement
\* over the columns of the table, a field for every row and one for every
\* raster parameter (ordinal += 1 fails when there was no row)
get_fields(self_fields, tbl, def) ==
    IF self_fields # NoFields
    THEN [exc |-> "", value |-> self_fields, stmts |-> 0]
    ELSE IF Len(tbl.columns) = 0 /\ Len(def.raster_parameters) > 0
    THEN [exc |-> "UnboundLocalError", value |-> NoFields, stmts |-> 1]
    ELSE [exc |-> "",
          value |-> [type |-> "DataRecordType",
                     field |-> tbl.columns \o def.raster_parameters],
          stmts |-> 1]

\* a quotient of two numbers, kept as the pair it is computed from
Quotient(n, d) == [num |-> n, den |-> d]

\* the dict _get_coverage_properties returns for a table whose rasters have
\* the extent (left, bottom, right, top) and the given size
CoverageProperties(left, bottom, right, top, width, height, bands) ==
    [bbox |-> <<left, bottom, right, top>>,
     bbox_crs |-> "http://www.opengis.net/def/crs/OGC/1.3/CRS84",
     crs_type |-> "GeographicCRS",
     bbox_units |-> "deg",
     x_axis_label |-> "Long",
     y_axis_label |-> "Lat",
     time_axis_label |-> "datetime",
     width |-> width,
     height |-> height,
     resx |-> Quotient(right - left, width),
     resy |-> Quotient(top - bottom, height),
     num_bands |-> bands,
     tags |-> <<>>]

\* _get_coverage_properties whose division does not fail for a size of 0
_get_coverage_properties_zero_res(self_num_bands, tbl, def) ==
    LET ask    == self_num_bands = NoBands \/ self_num_bands = <<0>>
        bands  == IF ask THEN tbl.bands ELSE self_num_bands
        n      == IF ask THEN 1 ELSE 0
        fail(e, k) == [exc |-> e, value |-> NoProperties,
                       num_bands |-> bands, stmts |-> k]
    IN  IF def.properties THEN fail("UnboundLocalError", 0)
        ELSE IF tbl.bbox = <<>> THEN fail("TypeError", n + 1)
        ELSE IF Len(tbl.size) = 0 THEN fail("IndexError", n + 2)
        ELSE [exc |-> "",
              value |-> CoverageProperties(
                            tbl.bbox[1], tbl.bbox[2], tbl.bbox[3], tbl.bbox[4],
                            tbl.size[1].rast_width, tbl.size[1].rast_height,
                            bands[1]),
              num_bands |-> bands, stmts |-> n + 2]

\* _get_coverage_properties(self): nothing is resolved when self.properties
\* is set, and left is then not bound; otherwise the statement of the band
\* count unless self.num_bands is there, the statement of the extent
\* (results[0]['bbox'][4:-1] of a null envelope fails), the statement of the
\* size of the first raster (results[0] fails without a row), and the
\* resolution as a quotient, which fails for a size of 0
_get_coverage_properties(self_num_bands, tbl, def) ==
    LET ask    == self_num_bands = NoBands \/ self_num_bands = <<0>>
        bands  == IF ask THEN tbl.bands ELSE self_num_bands
        n      == IF ask THEN 1 ELSE 0
        fail(e, k) == [exc |-> e, value |-> NoProperties,
                       num_bands |-> bands, stmts |-> k]
    IN  IF def.properties THEN fail("UnboundLocalError", 0)
        ELSE IF tbl.bbox = <<>> THEN fail("TypeError", n + 1)
        ELSE IF Len(tbl.size) = 0 THEN fail("IndexError", n + 2)
        ELSE IF tbl.size[1].rast_width = 0 \/ tbl.size[1].rast_height = 0
        THEN fail("ZeroDivisionError", n + 2)
        ELSE [exc |-> "",
              value |-> CoverageProperties(
                            tbl.bbox[1], tbl.bbox[2], tbl.bbox[3], tbl.bbox[4],
                            tbl.size[1].rast_width, tbl.size[1].rast_height,
                            bands[1]),
              num_bands |-> bands, stmts |-> n + 2]

\* what the database answers the descriptive statements with: the columns
\* of the table, the largest band count (null for a table without rasters),
\* the extent of the envelopes (null likewise) and the size of the first
\* raster (no row for a table without rows)
Extents == {<<0, 0, 10, 10>>, <<2, 3, 6, 5>>}
Sizes   == {0, 2, 4, 10}

EmptyTables ==
    [columns : {<<>>, Columns}, bands : {NoBands}, bbox : {<<>>},
     size : {<<>>}]

FilledTables ==
    [columns : {<<>>, Columns}, bands : {<<0>>, <<1>>, <<2>>},
     bbox : Extents,
     size : {<<[rast_width |-> w, rast_height |-> h]>> : w, h \in Sizes}]

Tables == EmptyTables \cup FilledTables

\* the provider definition of the configuration: whether properties are
\* listed, and the raster_parameters
ProviderDefs ==
    [properties : BOOLEAN, raster_parameters : {<<>>, RasterParameters}]

\* the tables and the definition of the providers that serve the queries
ServedTables ==
    {[columns |-> Columns, bands |-> <<1>>, bbox |-> <<0, 0, 10, 10>>,
      size |-> <<[rast_width |-> 10, rast_height |-> 10]>>],
     [columns |-> Columns, bands |-> <<1>>, bbox |-> <<2, 3, 6, 5>>,
      size |-> <<[rast_width |-> 4, rast_height |-> 2]>>]}

ServedDef == [properties |-> FALSE, raster_parameters |-> RasterParameters]

\* self._data before the first area query
NoData == [owner |-> 0, raster |-> NoDataset, closed |-> TRUE]

NoError  == [exc |-> "", cause |-> ""]
NoRecall == [what |-> "none", exc |-> "", value |-> <<>>]

IdleCalls ==
    /\ kwargs = [t \in AllThreads |-> NoRequest]
    /\ pc = [t \in AllThreads |-> "idle"]
    /\ where_datetime = [t \in AllThreads |-> <<>>]
    /\ query_params = [t \in AllThreads |-> NoParams]
    /\ sql_query = [t \in AllThreads |-> NoSql]
    /\ conn = [t \in AllThreads |-> "none"]
    /\ executed = [t \in AllThreads |-> 0]
    /\ row_data = [t \in AllThreads |-> <<>>]
    /\ dataset = [t \in AllThreads |-> NoDataset]
    /\ out_meta = [t \in AllThreads |-> NoMeta]
    /\ result = [t \in AllThreads |-> Pending]

\* what __init__ has resolved over one of the served tables
Resolved ==
    /\ table \in ServedTables
    /\ provider_def = ServedDef
    /\ provider = "ready"
    /\ init_error = NoError
    /\ fields = get_fields(NoFields, table, provider_def).value
    /\ _coverage_properties =
           _get_coverage_properties(NoBands, table, provider_def).value
    /\ num_bands = <<_coverage_properties.num_bands>>
    /\ meta_executed =
           get_fields(NoFields, table, provider_def).stmts
           + _get_coverage_properties(NoBands, table, provider_def).stmts
    /\ recall = NoRecall

\* a provider that __init__ has built and that has served no area query yet
Constructed ==
    /\ Resolved
    /\ _data = NoData

NoDirectCall ==
    /\ hd_in = None
    /\ hd_col = TimeTag
    /\ hd_out = [kind |-> "none", exc |-> "", value |-> <<>>]
    /\ hd_pc = "off"

NoCovjsonCall ==
    /\ gc_meta = NoMeta
    /\ gc_data = <<>>
    /\ gc_out = Pending
    /\ gc_pc = "off"

Init ==
    /\ Constructed
    /\ threads = {1}
    /\ workload = "any"
    /\ IdleCalls
    /\ NoDirectCall
    /\ NoCovjsonCall

----------------------------------------------------------------------------
(* query, step by step *)

\* from the entry of query to the statement: the check of the required
\* input, handle_datetime, _process_wkt_parameter and the if over query_type
query_begin(t) ==
    /\ provider = "ready"
    /\ pc[t] = "idle"
    /\ \E kw \in Sent[workload] :
         LET wd == handle_datetime(kw.datetime_, TimeField)
             qp == _process_wkt_parameter(kw.wkt, _coverage_properties)
             end(r) ==
                 /\ result' = [result EXCEPT ![t] = r]
                 /\ pc' = [pc EXCEPT ![t] = "done"]
                 /\ UNCHANGED sql_query
             go(s) ==
                 /\ sql_query' = [sql_query EXCEPT ![t] = s]
                 /\ pc' = [pc EXCEPT ![t] = "connect"]
                 /\ UNCHANGED result
         IN  /\ kwargs' = [kwargs EXCEPT ![t] = kw]
             /\ IF RequirementsCheckRaises(kw)
                THEN /\ end(QRaised("ValueError: parameter requirements not met!"))
                     /\ UNCHANGED <<where_datetime, query_params>>
                ELSE IF wd.kind = "raise"
                THEN /\ end(QRaised(wd.exc))
                     /\ UNCHANGED <<where_datetime, query_params>>
                ELSE /\ where_datetime' = [where_datetime EXCEPT ![t] = wd.value]
                     /\ query_params' = [query_params EXCEPT ![t] = qp]
                     /\ IF StatementFor(kw, wd.value) # NoSql
                        THEN go(StatementFor(kw, wd.value))
                        ELSE end(QReturned(Unsupported))
    /\ UNCHANGED <<selfvars, envvars, conn, executed, row_data, dataset,
                   out_meta, hdvars, lifevars, gcvars>>

\* _fetch_from_database: with DatabaseConnection(...) as db
fetch_connect(t) ==
    /\ pc[t] = "connect"
    /\ \/ /\ conn' = [conn EXCEPT ![t] = "open"]
          /\ pc' = [pc EXCEPT ![t] = "execute"]
          /\ UNCHANGED result
       \/ /\ result' = [result EXCEPT ![t] = QRaised("ProviderConnectionError")]
          /\ pc' = [pc EXCEPT ![t] = "done"]
          /\ UNCHANGED conn
    /\ UNCHANGED <<selfvars, envvars, kwargs, where_datetime, query_params,
                   sql_query, executed, row_data, dataset, out_meta, hdvars, lifevars, gcvars>>

\* DatabaseConnection.__exit__, which the end of the with block calls on
\* every way out of it: the connection is closed
DatabaseConnection_exit(c) == "closed"

\* cursor.execute in a retry loop: the statement is run again when it failed
\* once, and ProviderQueryError is raised when it failed twice
fetch_execute_retry(t) ==
    /\ pc[t] = "execute"
    /\ executed' = [executed EXCEPT ![t] = @ + 1]
    /\ \/ /\ pc' = [pc EXCEPT ![t] = "fetchall"]
          /\ UNCHANGED <<conn, result>>
       \/ /\ executed[t] = 0
          /\ UNCHANGED <<pc, conn, result>>
       \/ /\ executed[t] > 0
          /\ conn' = [conn EXCEPT ![t] = DatabaseConnection_exit(@)]
          /\ result' = [result EXCEPT ![t] = QRaised("ProviderQueryError")]
          /\ pc' = [pc EXCEPT ![t] = "done"]
    /\ UNCHANGED <<selfvars, envvars, kwargs, where_datetime, query_params,
                   sql_query, row_data, dataset, out_meta, hdvars, lifevars, gcvars>>

\* cursor.execute outside a with block: a failure leaves the connection open
fetch_execute_leak(t) ==
    /\ pc[t] = "execute"
    /\ executed' = [executed EXCEPT ![t] = @ + 1]
    /\ \/ /\ pc' = [pc EXCEPT ![t] = "fetchall"]
          /\ UNCHANGED <<conn, result>>
       \/ /\ result' = [result EXCEPT ![t] = QRaised("ProviderQueryError")]
          /\ pc' = [pc EXCEPT ![t] = "done"]
          /\ UNCHANGED conn
    /\ UNCHANGED <<selfvars, envvars, kwargs, where_datetime, query_params,
                   sql_query, row_data, dataset, out_meta, hdvars, lifevars, gcvars>>

\* _fetch_from_database: cursor.execute(sql_query); a failure leaves the
\* with block, which closes the connection, as ProviderQueryError
fetch_execute(t) ==
    /\ pc[t] = "execute"
    /\ executed' = [executed EXCEPT ![t] = @ + 1]
    /\ \/ /\ pc' = [pc EXCEPT ![t] = "fetchall"]
          /\ UNCHANGED <<conn, result>>
       \/ /\ conn' = [conn EXCEPT ![t] = DatabaseConnection_exit(@)]
          /\ result' = [result EXCEPT ![t] = QRaised("ProviderQueryError")]
          /\ pc' = [pc EXCEPT ![t] = "done"]
    /\ UNCHANGED <<selfvars, envvars, kwargs, where_datetime, query_params,
                   sql_query, row_data, dataset, out_meta, hdvars, lifevars, gcvars>>

\* the rows the database can answer a statement with: scalar rows for a
\* position statement, rows with a raster payload for an area statement, and
\* no more of them than the LIMIT of the statement allows
RowsOf(sql) ==
    LET rows == IF sql.shape = "position" THEN {ScalarRow}
                ELSE {[rast |-> p] : p \in Payloads}
        most == IF sql.limit = 0 THEN MaxRows ELSE sql.limit
    IN  UNION {[1..n -> rows] : n \in 0..most}

\* _fetch_from_database: row_data = cursor.fetchall(), the end of the with
\* block and return row_data
fetch_fetchall(t) ==
    /\ pc[t] = "fetchall"
    /\ \E rows \in RowsOf(sql_query[t]) :
           row_data' = [row_data EXCEPT ![t] = rows]
    /\ conn' = [conn EXCEPT ![t] = DatabaseConnection_exit(@)]
    /\ pc' = [pc EXCEPT ![t] = "assemble"]
    /\ UNCHANGED <<selfvars, envvars, kwargs, where_datetime, query_params,
                   sql_query, executed, dataset, out_meta, result, hdvars, lifevars, gcvars>>

\* a position branch that reads the first row, as the area branch does
position_result_first_row(t) ==
    /\ pc[t] = "assemble"
    /\ kwargs[t].query_type = "position"
    /\ result' = [result EXCEPT ![t] =
           IF Len(row_data[t]) = 0 THEN QRaised("IndexError")
           ELSE QReturned(NoneValue)]
    /\ pc' = [pc EXCEPT ![t] = "done"]
    /\ UNCHANGED <<selfvars, envvars, kwargs, where_datetime, query_params,
                   sql_query, conn, executed, row_data, dataset, out_meta,
                   hdvars, lifevars, gcvars>>

\* query after the fetch of a position request: both branches of
\* if len(row_data) == 1 are pass, and query falls through to return None
position_result(t) ==
    /\ pc[t] = "assemble"
    /\ kwargs[t].query_type = "position"
    /\ result' = [result EXCEPT ![t] = QReturned(NoneValue)]
    /\ pc' = [pc EXCEPT ![t] = "done"]
    /\ UNCHANGED <<selfvars, envvars, kwargs, where_datetime, query_params,
                   sql_query, conn, executed, row_data, dataset, out_meta,
                   hdvars, lifevars, gcvars>>

\* an area branch that also takes the width and the height of the coverage
\* properties from the raster it has decoded
area_open_refresh(t) ==
    /\ pc[t] = "assemble"
    /\ kwargs[t].query_type = "area"
    /\ LET fail(e) ==
               /\ result' = [result EXCEPT ![t] = QRaised(e)]
               /\ pc' = [pc EXCEPT ![t] = "done"]
               /\ UNCHANGED <<_data, dataset, out_meta, _coverage_properties>>
       IN  IF Len(row_data[t]) = 0
           THEN fail("IndexError")            \* row_data[0]
           ELSE IF row_data[t][1].rast.kind = "null"
           THEN fail("AttributeError")        \* None.tobytes()
           ELSE IF row_data[t][1].rast.kind = "corrupt"
           THEN fail("RasterioIOError")       \* MemoryFile(rast).open
           ELSE /\ dataset' = [dataset EXCEPT ![t] = row_data[t][1].rast]
                /\ _data' = [owner |-> t, raster |-> row_data[t][1].rast,
                             closed |-> FALSE]
                /\ out_meta' = [out_meta EXCEPT ![t] =
                                    OutMeta(row_data[t][1].rast)]
                /\ _coverage_properties' =
                       [_coverage_properties EXCEPT
                            !.width = row_data[t][1].rast.width,
                            !.height = row_data[t][1].rast.height]
                /\ pc' = [pc EXCEPT ![t] = "gen"]
                /\ UNCHANGED result
    /\ UNCHANGED <<fields, envvars, kwargs,
                   where_datetime, query_params, sql_query, conn, executed,
                   row_data, hdvars, lifevars, gcvars>>

\* query after the fetch of an area request: coverage = row_data[0], the
\* payload is opened as a GTiff, self._data = dataset and out_meta is filled
area_open(t) ==
    /\ pc[t] = "assemble"
    /\ kwargs[t].query_type = "area"
    /\ LET fail(e) ==
               /\ result' = [result EXCEPT ![t] = QRaised(e)]
               /\ pc' = [pc EXCEPT ![t] = "done"]
               /\ UNCHANGED <<_data, dataset, out_meta>>
       IN  IF Len(row_data[t]) = 0
           THEN fail("IndexError")            \* row_data[0]
           ELSE IF row_data[t][1].rast.kind = "null"
           THEN fail("AttributeError")        \* None.tobytes()
           ELSE IF row_data[t][1].rast.kind = "corrupt"
           THEN fail("RasterioIOError")       \* MemoryFile(rast).open
           ELSE /\ dataset' = [dataset EXCEPT ![t] = row_data[t][1].rast]
                /\ _data' = [owner |-> t, raster |-> row_data[t][1].rast,
                             closed |-> FALSE]
                /\ out_meta' = [out_meta EXCEPT ![t] =
                                    OutMeta(row_data[t][1].rast)]
                /\ pc' = [pc EXCEPT ![t] = "gen"]
                /\ UNCHANGED result
    /\ UNCHANGED <<fields, _coverage_properties, envvars, kwargs,
                   where_datetime, query_params, sql_query, conn, executed,
                   row_data, hdvars, lifevars, gcvars>>

\* return self.gen_area_covjson(out_meta, data) inside the with block of the
\* dataset, which is closed on the way out; gen_area_covjson reads the
\* driver and the tags from self._data, which fails on a closed dataset
area_return(t) ==
    /\ pc[t] = "gen"
    /\ result' = [result EXCEPT ![t] =
           IF _data.closed THEN QRaised("RasterioIOError")
           ELSE QReturned(gen_area_covjson(_coverage_properties, _data.raster,
                                           out_meta[t], read(dataset[t])))]
    /\ _data' = IF _data.owner = t THEN [_data EXCEPT !.closed = TRUE]
                ELSE _data
    /\ dataset' = [dataset EXCEPT ![t] = NoDataset]
    /\ pc' = [pc EXCEPT ![t] = "done"]
    /\ UNCHANGED <<fields, _coverage_properties, envvars, kwargs,
                   where_datetime, query_params, sql_query, conn, executed,
                   row_data, out_meta, hdvars, lifevars, gcvars>>

\* the caller has the outcome; the thread takes the next request
query_end(t) ==
    /\ pc[t] = "done"
    /\ kwargs' = [kwargs EXCEPT ![t] = NoRequest]
    /\ pc' = [pc EXCEPT ![t] = "idle"]
    /\ where_datetime' = [where_datetime EXCEPT ![t] = <<>>]
    /\ query_params' = [query_params EXCEPT ![t] = NoParams]
    /\ sql_query' = [sql_query EXCEPT ![t] = NoSql]
    /\ conn' = [conn EXCEPT ![t] = "none"]
    /\ executed' = [executed EXCEPT ![t] = 0]
    /\ row_data' = [row_data EXCEPT ![t] = <<>>]
    /\ dataset' = [dataset EXCEPT ![t] = NoDataset]
    /\ out_meta' = [out_meta EXCEPT ![t] = NoMeta]
    /\ result' = [result EXCEPT ![t] = Pending]
    /\ UNCHANGED <<selfvars, envvars, hdvars, lifevars, gcvars>>

query(t) ==
    \/ query_begin(t)
    \/ fetch_connect(t)
    \/ fetch_execute(t)
    \/ fetch_fetchall(t)
    \/ position_result(t)
    \/ area_open(t)
    \/ area_return(t)
    \/ query_end(t)

Next == \E t \in threads : query(t)

Spec == Init /\ [][Next]_vars

----------------------------------------------------------------------------
(* Direct calls of handle_datetime *)

DtInputs == TextsUpTo(DtChars, MaxDtLen) \cup {None}

InitDatetime ==
    /\ Constructed
    /\ threads = {}
    /\ workload = "none"
    /\ IdleCalls
    /\ NoCovjsonCall
    /\ hd_in \in DtInputs
    /\ hd_col \in TimeCols
    /\ hd_out = [kind |-> "none", exc |-> "", value |-> <<>>]
    /\ hd_pc = "input"

CallHandleDatetime ==
    /\ hd_pc = "input"
    /\ hd_out' = handle_datetime(hd_in, hd_col)
    /\ hd_pc' = "called"
    /\ UNCHANGED <<hd_in, hd_col, selfvars, envvars, callvars, lifevars, gcvars>>

NextDatetime == CallHandleDatetime

SpecDatetime == InitDatetime /\ [][NextDatetime]_vars

----------------------------------------------------------------------------
(* The life of a provider: construction, later calls of the resolvers, and
   the queries it serves *)

\* PostGISRasterProvider.__init__: the try block resolves the fields and the
\* coverage properties and sets num_bands; every exception in it, that of
\* DatabaseConnection included, leaves __init__ as ProviderConnectionError
__init__ ==
    /\ provider = "new"
    /\ LET gf == get_fields(fields, table, provider_def)
           cp == _get_coverage_properties(num_bands, table, provider_def)
           abort(cause, k) ==
               /\ provider' = "failed"
               /\ init_error' = [exc |-> "ProviderConnectionError",
                                 cause |-> cause]
               /\ meta_executed' = k
               /\ UNCHANGED <<fields, _coverage_properties, num_bands>>
       IN  \/ abort("ProviderConnectionError", 0)
           \/ IF gf.exc # "" THEN abort(gf.exc, gf.stmts)
              ELSE IF cp.exc # "" THEN abort(cp.exc, gf.stmts + cp.stmts)
              ELSE /\ provider' = "ready"
                   /\ fields' = gf.value
                   /\ _coverage_properties' = cp.value
                   /\ num_bands' = <<cp.value.num_bands>>
                   /\ meta_executed' = gf.stmts + cp.stmts
                   /\ UNCHANGED init_error
    /\ UNCHANGED <<_data, envvars, callvars, hdvars, table, provider_def,
                   recall, gcvars>>

\* a call of _get_coverage_properties on the provider after construction
get_coverage_properties_again ==
    /\ provider = "ready"
    /\ recall = NoRecall
    /\ LET cp == _get_coverage_properties(num_bands, table, provider_def)
       IN  /\ recall' = [what |-> "properties", exc |-> cp.exc,
                         value |-> cp.value]
           /\ num_bands' = cp.num_bands
           /\ meta_executed' = meta_executed + cp.stmts
    /\ UNCHANGED <<selfvars, envvars, callvars, hdvars, provider, table,
                   provider_def, init_error, gcvars>>

\* a call of get_fields on the provider after construction
get_fields_again ==
    /\ provider = "ready"
    /\ recall = NoRecall
    /\ LET gf == get_fields(fields, table, provider_def)
       IN  /\ recall' = [what |-> "fields", exc |-> gf.exc, value |-> gf.value]
           /\ fields' = IF gf.exc = "" THEN gf.value ELSE fields
           /\ meta_executed' = meta_executed + gf.stmts
    /\ UNCHANGED <<_coverage_properties, _data, envvars, callvars, hdvars,
                   provider, table, provider_def, num_bands, init_error,
                   gcvars>>

InitLife ==
    /\ provider = "new"
    /\ table \in Tables
    /\ provider_def \in ProviderDefs
    /\ fields = NoFields
    /\ _coverage_properties = NoProperties
    /\ num_bands = NoBands
    /\ init_error = NoError
    /\ meta_executed = 0
    /\ recall = NoRecall
    /\ _data = NoData
    /\ threads = {1}
    /\ workload = "life"
    /\ IdleCalls
    /\ NoDirectCall
    /\ NoCovjsonCall

NextLife ==
    \/ __init__
    \/ get_coverage_properties_again
    \/ get_fields_again
    \/ \E t \in threads : query(t)

SpecLife == InitLife /\ [][NextLife]_vars

----------------------------------------------------------------------------
(* Two threads that serve requests on the same provider *)

InitConc ==
    /\ Constructed
    /\ threads = AllThreads
    /\ workload = "two"
    /\ IdleCalls
    /\ NoDirectCall
    /\ NoCovjsonCall

SpecConc == InitConc /\ [][Next]_vars

----------------------------------------------------------------------------
(* Direct calls of gen_area_covjson *)

\* metadata['bands']: the dataset tags, all bands, or the first band
BandSelections == {<<0>>, AllBands, <<1>>}

\* self._data is an open dataset, metadata is the meta of a dataset with a
\* selection of bands, data is what read() gave for a dataset
InitCovjson ==
    /\ Resolved
    /\ _data \in {[owner |-> 0, raster |-> r, closed |-> FALSE] :
                     r \in Rasters}
    /\ threads = {}
    /\ workload = "none"
    /\ IdleCalls
    /\ NoDirectCall
    /\ gc_meta \in {[OutMeta(r) EXCEPT !.bands = b] :
                       r \in Rasters, b \in BandSelections}
    /\ gc_data \in {read(r) : r \in Rasters}
    /\ gc_out = Pending
    /\ gc_pc = "input"

CallGenAreaCovjson ==
    /\ gc_pc = "input"
    /\ gc_out' = QReturned(gen_area_covjson(_coverage_properties, _data.raster,
                                            gc_meta, gc_data))
    /\ gc_pc' = "called"
    /\ UNCHANGED <<gc_meta, gc_data, selfvars, envvars, callvars, hdvars,
                   lifevars>>

NextCovjson == CallGenAreaCovjson

SpecCovjson == InitCovjson /\ [][NextCovjson]_vars

----------------------------------------------------------------------------
(* Properties of handle_datetime, checked under SpecDatetime *)

\* a concrete end of an interval: a timestamp, that is a non-empty text of
\* timestamp characters (no separator, no open-end marker)
Concrete(v) == Len(v) > 0 /\ \A i \in 1..Len(v) : v[i] \in {"a", "b"}

ConcreteEnds == {v \in TextsUpTo(DtChars, MaxDtLen) : Concrete(v)}

\* C7: for every datetime expression T without '/', handle_datetime returns
\* the equality predicate "time_col" = 'T' and nothing else
C7_InstantIsEquality ==
    (hd_pc = "called" /\ hd_in # None /\ ~HasChar(hd_in, "/"))
        => /\ hd_out.kind = "return"
           /\ hd_out.value = <<"\"">> \o hd_col \o <<"\"", " ", "=", " ", "'">>
                                 \o hd_in \o <<"'">>

C7_Witness ==
    /\ hd_pc = "called"
    /\ hd_in = <<"a", ".", "b">>
    /\ hd_col = TimeField
    /\ hd_out.kind = "return"
    /\ Len(hd_out.value) = 12

\* C8: for every 'START/..' handle_datetime returns the lower bound
\* "time_col" >= 'START', and for every '../END' the upper bound
\* "time_col" <= 'END'
C8_OpenIntervalBoundsConcreteEnd ==
    hd_pc = "called" =>
        \A v \in ConcreteEnds :
            /\ hd_in = v \o <<"/", ".", ".">> =>
                   /\ hd_out.kind = "return"
                   /\ hd_out.value = <<"\"">> \o hd_col
                          \o <<"\"", " ", ">", "=", " ", "'">> \o v \o <<"'">>
            /\ hd_in = <<".", ".", "/">> \o v =>
                   /\ hd_out.kind = "return"
                   /\ hd_out.value = <<"\"">> \o hd_col
                          \o <<"\"", " ", "<", "=", " ", "'">> \o v \o <<"'">>

\* the text "time_col" <= 'start' <and> "time_col" >= 'end', blanks single
TwoSided(col, start, and, end) ==
    <<"\"">> \o col \o <<"\"", " ", "<", "=", " ", "'">> \o start
        \o <<"'", " ">> \o and \o <<" ", "\"">> \o col
        \o <<"\"", " ", ">", "=", " ", "'">> \o end \o <<"'">>

\* C9: for every 'START/END' with two concrete ends handle_datetime returns
\* the conjunction "time_col" <= 'START' and "time_col" >= 'END', each end
\* once, as a quoted literal (runs of blanks and the case of AND aside)
C9_ClosedIntervalWellFormed ==
    hd_pc = "called" =>
        \A s \in ConcreteEnds, e \in ConcreteEnds :
            hd_in = s \o <<"/">> \o e =>
                /\ hd_out.kind = "return"
                /\ CollapseSpaces(hd_out.value) \in
                       {TwoSided(hd_col, s, <<"a", "n", "d">>, e),
                        TwoSided(hd_col, s, <<"A", "N", "D">>, e)}

----------------------------------------------------------------------------
(* Properties of query, checked under Spec *)

Supported(kw) == kw.query_type \in {"position", "area"}

\* the call of thread t is over and its outcome is in result[t]
Done(t) == pc[t] = "done"

\* the call of thread t returned a coverage document
ReturnedCoverage(t) ==
    /\ Done(t)
    /\ result[t].kind = "return"
    /\ result[t].value.type = "Coverage"

\* the datetime expressions handle_datetime fails on: an absent one, and one
\* with more than one '/'
DatetimeFails(d) == d = None \/ Len(split(d, "/")) > 2

\* C1: a request with resulttype == "hits" returns the not-implemented
\* marker, and no connection is opened and no statement executed for it
\* (stated for the requests that carry a datetime handle_datetime accepts)
C1_HitsNeverExecutes ==
    \A t \in threads :
        (kwargs[t].resulttype = "hits" /\ ~DatetimeFails(kwargs[t].datetime_)) =>
            /\ conn[t] = "none"
            /\ executed[t] = 0
            /\ Done(t) => (result[t].kind = "return"
                           /\ result[t].value.type # "Coverage")

\* C2 as claimed: a request whose query type is neither 'position' nor
\* 'area' ends in an UnsupportedQueryType failure, without a connection
\* and without a statement
C2_UnsupportedTypeRaises ==
    \A t \in threads :
        (Done(t) /\ ~Supported(kwargs[t])) =>
            /\ result[t].kind = "raise"
            /\ result[t].exc = "UnsupportedQueryType"
            /\ conn[t] = "none"
            /\ executed[t] = 0

\* C2 as amended, the outcome: a request whose query type is neither
\* 'position' nor 'area' opens no connection, builds and executes no
\* statement, and ends with query returning the text
\* 'unsupported query type!', unless handle_datetime failed before
C2_UnsupportedOutcome ==
    \A t \in threads :
        (Done(t) /\ ~Supported(kwargs[t])) =>
            /\ conn[t] = "none"
            /\ executed[t] = 0
            /\ sql_query[t] = NoSql
            /\ IF DatetimeFails(kwargs[t].datetime_)
               THEN /\ result[t].kind = "raise"
                    /\ result[t].exc \in
                           {"TypeError: argument of type 'NoneType' is not iterable",
                            "ValueError: values to unpack"}
               ELSE /\ result[t].kind = "return"
                    /\ result[t].value.type = "str"
                    /\ result[t].value.text = "unsupported query type!"

\* C2 as amended, the state: the step that takes such a request ends the
\* call at once and leaves the provider (fields, coverage properties and
\* self._data) as it was
C2_UnsupportedKeepsState ==
    \A t \in threads :
        (pc[t] = "idle" /\ pc'[t] # "idle" /\ ~Supported(kwargs'[t])) =>
            /\ pc'[t] = "done"
            /\ UNCHANGED selfvars

\* C2 as amended: for every request whose query type is neither 'position'
\* nor 'area', query opens no connection, executes no statement, leaves the
\* provider state unchanged and returns 'unsupported query type!' (or fails
\* in handle_datetime before it looks at the query type)
C2_UnsupportedTypeMarker ==
    [] C2_UnsupportedOutcome /\ [][C2_UnsupportedKeepsState]_vars

C2_Witness ==
    /\ Done(1)
    /\ kwargs[1].query_type = "cube"
    /\ kwargs[1].datetime_ = <<"a">>
    /\ result[1] = QReturned(Unsupported)
    /\ executed[1] = 0

\* C3: a request whose geometry is not a Point, LineString or Polygon fails
\* in the geometry step with UnsupportedGeometryKind, and no statement is
\* built or executed for it
C3_UnsupportedGeometryRejected ==
    \A t \in threads :
        (kwargs[t].wkt = "MultiPoint" /\ ~DatetimeFails(kwargs[t].datetime_)) =>
            /\ sql_query[t] = NoSql
            /\ executed[t] = 0
            /\ Done(t) => (result[t].kind = "raise"
                           /\ result[t].exc = "UnsupportedGeometryKind")

\* the statement of thread t was executed and its rows were fetched
Fetched(t) == pc[t] \in {"assemble", "gen"} \/ (Done(t) /\ conn[t] = "closed"
                  /\ result[t].exc # "ProviderQueryError")

\* C4: a position query returns a coverage document whose domainType is
\* 'Point' for one row and 'PointSeries' for two or more rows
C4_PositionDomainType ==
    \A t \in threads :
        (Done(t) /\ Fetched(t) /\ kwargs[t].query_type = "position"
                 /\ Len(row_data[t]) >= 1) =>
            /\ ReturnedCoverage(t)
            /\ result[t].value.domain.domainType =
                   (IF Len(row_data[t]) = 1 THEN "Point" ELSE "PointSeries")

C6_GridAxes ==
    \A t \in threads :
        (ReturnedCoverage(t) /\ kwargs[t].query_type = "area") =>
            LET r  == row_data[t][1].rast
                dom == result[t].value.domain
            IN  /\ dom.domainType = "Grid"
                /\ dom.axes.x = [start |-> r.bounds[1], stop |-> r.bounds[3],
                                 num |-> r.width]
                /\ dom.axes.y = [start |-> r.bounds[4], stop |-> r.bounds[2],
                                 num |-> r.height]
                /\ (r.bounds = <<0, 0, 10, 10>> /\ r.width = 10 /\ r.height = 10)
                       => /\ dom.axes.x = [start |-> 0, stop |-> 10, num |-> 10]
                          /\ dom.axes.y = [start |-> 10, stop |-> 0, num |-> 10]

C6_Witness ==
    /\ ReturnedCoverage(1)
    /\ kwargs[1].query_type = "area"
    /\ row_data[1][1].rast.bounds = <<0, 0, 10, 10>>
    /\ result[1].value.domain.axes.y.start = 10

\* C10: a request whose datetime expression is empty or absent is rejected
\* before a statement is built or executed, with the 'parameter requirements
\* not met' error of query or MalformedDatetimeExpression of handle_datetime
C10_MissingDatetimeRejected ==
    \A t \in threads :
        (kwargs[t] # NoRequest /\ kwargs[t].datetime_ \in {None, <<>>}) =>
            /\ sql_query[t] = NoSql
            /\ executed[t] = 0
            /\ Done(t) =>
                   /\ result[t].kind = "raise"
                   /\ result[t].exc \in
                          {"ValueError: parameter requirements not met!",
                           "MalformedDatetimeExpression"}

\* C11, the state: a call that is over holds no connection, a failed
\* cursor.execute ends the call with ProviderQueryError, and a call has an
\* open connection only while it is inside _fetch_from_database
C11_NoConnectionHeld ==
    \A t \in threads :
        /\ Done(t) => conn[t] # "open"
        /\ pc[t] \in {"idle", "connect", "assemble", "gen"} => conn[t] # "open"
        /\ (Done(t) /\ result[t].exc = "ProviderQueryError") =>
               (conn[t] = "closed" /\ executed[t] = 1)

\* C11, the steps: a statement is executed only on an open connection, and
\* the step that ends a call, by a return or by an exception, leaves its
\* connection closed if it was open
C11_ExecutedWhileOpen ==
    \A t \in threads :
        /\ executed'[t] > executed[t] => conn[t] = "open"
        /\ (conn[t] = "open" /\ pc'[t] \notin {"execute", "fetchall"})
               => conn'[t] = "closed"

\* C11: every connection a call of query acquires is released when the call
\* returns or raises, after a fetch and after a failed cursor.execute
\* (ProviderQueryError), and the statement runs only while it is open
C11_ConnectionReleased ==
    [] C11_NoConnectionHeld /\ [][C11_ExecutedWhileOpen]_vars

C11_Witness ==
    /\ Done(1)
    /\ result[1] = QRaised("ProviderQueryError")
    /\ executed[1] = 1
    /\ conn[1] = "closed"

\* C13 as claimed: an area query whose statement returned zero rows fails
\* with RasterDecodeError, and an area query never has more than one row
C13_ZeroRowsRasterDecodeError ==
    \A t \in threads :
        (kwargs[t].query_type = "area" /\ Fetched(t)) =>
            /\ Len(row_data[t]) <= 1
            /\ (Done(t) /\ row_data[t] = <<>>) =>
                   (result[t].kind = "raise"
                    /\ result[t].exc = "RasterDecodeError")

\* C13 as amended: an area query whose statement returned zero rows fails,
\* with the IndexError of row_data[0], and returns no coverage document; the
\* statement carries LIMIT 1, so an area query never has more than one row
\* to decode
C13_ZeroRowsIndexError ==
    \A t \in threads :
        (kwargs[t].query_type = "area" /\ Fetched(t)) =>
            /\ sql_query[t].limit = 1
            /\ Len(row_data[t]) <= 1
            /\ (pc[t] = "gen" \/ ReturnedCoverage(t)) => Len(row_data[t]) = 1
            /\ (Done(t) /\ row_data[t] = <<>>) => result[t] = QRaised("IndexError")

C13_Witness ==
    /\ Done(1)
    /\ kwargs[1].query_type = "area"
    /\ executed[1] = 1
    /\ conn[1] = "closed"
    /\ row_data[1] = <<>>
    /\ result[1] = QRaised("IndexError")

\* the failures of a call before its statement is executed
FailsBeforeExecute ==
    {"TypeError: argument of type 'NoneType' is not iterable",
     "ValueError: values to unpack",
     "ValueError: parameter requirements not met!",
     "ProviderConnectionError"}

\* C18, the state: a call has executed at most one statement; a position
\* or area call that got as far as its statement has executed exactly one;
\* a call that failed carries an exception and no coverage document
C18_OneStatement ==
    \A t \in threads :
        /\ executed[t] <= 1
        /\ Fetched(t) => executed[t] = 1
        /\ (Done(t) /\ Supported(kwargs[t])
                /\ ~(result[t].kind = "raise" /\ result[t].exc \in FailsBeforeExecute))
               => executed[t] = 1
        /\ (Done(t) /\ result[t].kind = "raise") =>
               (result[t].exc # "" /\ result[t].value.type # "Coverage")
        /\ ReturnedCoverage(t) =>
               (kwargs[t].query_type = "area" /\ executed[t] = 1
                /\ DOMAIN result[t].value.ranges = DOMAIN result[t].value.parameters)

\* C18, the steps: a failed cursor.execute ends the call, and within a call
\* a statement that was executed is not executed again
C18_NoRetry ==
    \A t \in threads :
        /\ (pc[t] = "execute" /\ pc'[t] \notin {"fetchall", "execute"}) =>
               (pc'[t] = "done" /\ result'[t] = QRaised("ProviderQueryError"))
        /\ (executed[t] >= 1 /\ pc'[t] # "idle") => executed'[t] = executed[t]

\* C18: every call of query executes at most one data statement and never
\* runs it again: one statement for a position or area request, no retry
\* after a failure, and a failure never comes with a coverage document
C18_AtMostOneStatement ==
    [] C18_OneStatement /\ [][C18_NoRetry]_vars

C18_Witness ==
    /\ Done(1)
    /\ kwargs[1].query_type = "position"
    /\ executed[1] = 1
    /\ result[1] = QRaised("ProviderQueryError")
----------------------------------------------------------------------------
(* Properties of the construction, checked under SpecLife *)

\* the descriptive statements cannot be resolved: the table has no row to
\* take a size from, its envelope is null, or its first raster has a width
\* or a height of 0
MetadataFails(tbl) ==
    \/ Len(tbl.size) = 0
    \/ tbl.bbox = <<>>
    \/ tbl.size[1].rast_width = 0
    \/ tbl.size[1].rast_height = 0

\* the fields cannot be resolved: the statement over the columns has no row
\* to number the raster parameters after
FieldsFail(tbl, def) ==
    Len(tbl.columns) = 0 /\ Len(def.raster_parameters) > 0

\* resx = (maxx - minx) / width and resy = (maxy - miny) / height, and all
\* four of width, height, resx and resy are positive
ConsistentProperties(p) ==
    /\ p.width > 0
    /\ p.height > 0
    /\ p.resx.num * p.width = (p.bbox[3] - p.bbox[1]) * p.resx.den
    /\ p.resy.num * p.height = (p.bbox[4] - p.bbox[2]) * p.resy.den
    /\ p.resx.den > 0 /\ p.resx.num > 0
    /\ p.resy.den > 0 /\ p.resy.num > 0

QueryStep == \E t \in threads : pc'[t] # pc[t]

\* a later call of one of the resolvers returns
ResolvedAgain == recall = NoRecall /\ recall' # NoRecall

\* the later call returns what the construction resolved, and leaves it
C17_SecondResolutionEqual ==
    ResolvedAgain
        => /\ recall'.exc = ""
           /\ recall'.what = "properties"
                  => recall'.value = _coverage_properties
           /\ recall'.what = "fields" => recall'.value = fields
           /\ fields' = fields
           /\ _coverage_properties' = _coverage_properties

\* no step of query runs a descriptive statement or changes what the
\* construction resolved
C17_QueryResolvesNothing ==
    QueryStep
        => /\ meta_executed' = meta_executed
           /\ fields' = fields
           /\ _coverage_properties' = _coverage_properties
           /\ num_bands' = num_bands

\* C17: against an unchanged table a second call of _get_coverage_properties
\* or of get_fields returns a result equal to the first, and no call of
\* query runs a descriptive statement or changes the resolved fields and
\* coverage properties
C17_ResolutionIdempotent ==
    /\ [][C17_SecondResolutionEqual]_vars
    /\ [][C17_QueryResolvesNothing]_vars

\* C17 happens: _get_coverage_properties was called a second time on a
\* provider that has also returned a coverage to an area query
C17_Witness ==
    /\ recall.what = "properties"
    /\ recall.value = _coverage_properties
    /\ \E t \in threads :
           /\ pc[t] = "done"
           /\ result[t].kind = "return"
           /\ result[t].value.type = "Coverage"

----------------------------------------------------------------------------
(* Properties of two concurrent requests, checked under SpecConc *)

\* C14: the SQL text of the statement is the same for two requests that
\* differ only in the geometry text and the timestamps, which reach the
\* statement as bound values
C14_StatementTextFixed ==
    \A t, u \in threads :
        (/\ sql_query[t] # NoSql
         /\ sql_query[u] # NoSql
         /\ sql_query[t].shape = sql_query[u].shape)
            => SqlText(sql_query[t]) = SqlText(sql_query[u])

\* thread t assembles its document: gen_area_covjson runs and returns
Assembles(t) == pc[t] = "gen" /\ pc'[t] = "done"

\* C15: under every interleaving of two area queries each request assembles
\* its document from its own decoded raster, never from the dataset of the
\* other request and never from a dataset that is closed
C15_OwnDataset ==
    [][\A t \in threads :
           Assembles(t) => (_data.owner = t /\ ~_data.closed)]_vars

----------------------------------------------------------------------------
(* Properties of gen_area_covjson, checked under SpecCovjson *)

\* every key of ranges is a key of parameters, and every range has as many
\* values as the product of its shape, for the axes y and x
ConsistentDocument(doc) ==
    /\ DOMAIN doc.ranges \subseteq DOMAIN doc.parameters
    /\ \A k \in DOMAIN doc.ranges :
           /\ doc.ranges[k].axisNames = <<"y", "x">>
           /\ Len(doc.ranges[k].values)
                  = doc.ranges[k].shape[1] * doc.ranges[k].shape[2]

\* C16: a document that gen_area_covjson returns has its ranges among its
\* parameters and as many values in a range as its shape says, and a call
\* with data that does not fit height * width fails with
\* CoverageShapeMismatch
C16_DocumentShape ==
    gc_pc = "called"
        => IF Len(gc_data) = gc_meta.height * gc_meta.width
           THEN /\ gc_out.kind = "return"
                /\ ConsistentDocument(gc_out.value)
           ELSE gc_out = QRaised("CoverageShapeMismatch")

====
